---- MODULE Spec2Model ----
(***************************************************************************)
(* Cascading style S-expressions: the lex -> parse -> to_stylesheet         *)
(* pipeline of src/src/lib.rs, driven as string_to_stylesheet and           *)
(* src/src/bin.rs drive it.                                                 *)
(*                                                                          *)
(* Text is a sequence of one-character strings.  A Token is a record        *)
(* [type, string]; an SExpr is [selector, rules, children]; a Rule is       *)
(* [property, value].  Indices into Rust slices (left, right) keep their    *)
(* 0-based values; positions of the Peekable iterators are the 1-based      *)
(* index of the next element.                                               *)
(***************************************************************************)
EXTENDS Integers, Sequences, FiniteSets

VARIABLES
    entry,    \* which public entry point is driven: "text", "tokens" or "doc"
    doc,      \* the groups the token input was assembled from ("doc" entry)
    input,    \* lex: the input String
    chars,    \* lex: position of the Peekable<Chars> iterator in input
    tokens,   \* lex: the token vector; parse: its argument
    left,     \* parse: let mut left
    right,    \* parse: the enumerate() index of the for loop
    depth,    \* parse: let mut depth: u32, held as its signed residue modulo 2^32:
              \* v itself below 2^31, v - 2^32 from there on (2^32 - 1 is -1)
    s_exprs,  \* parse: the result vector
    k,        \* string_to_stylesheet: number of s_exprs rendered so far
    string,   \* string_to_stylesheet: let mut string
    pc        \* "lex", "parse", "render", "done", "panic_overflow", "panic_slice"

vars == <<entry, doc, input, chars, tokens, left, right, depth, s_exprs, k, string, pc>>

(***************************************************************************)
(* Bounds of the explored inputs.                                           *)
(***************************************************************************)
MaxInput == 6     \* characters of a text input
MaxTokens == 6    \* tokens of a raw token input
MaxItems == 3     \* body items of a generated group
MaxGroups == 3    \* top-level groups of a generated document

(***************************************************************************)
(* Generic sequence helpers.                                                *)
(***************************************************************************)
SeqsUpTo(S, n) == UNION {[1..m -> S] : m \in 0..n}

RECURSIVE Concat(_)
Concat(ss) == IF ss = <<>> THEN <<>> ELSE Head(ss) \o Concat(Tail(ss))

\* [T]::join(sep) on a vector of strings
RECURSIVE join(_, _)
join(ss, sep) ==
    IF ss = <<>> THEN <<>>
    ELSE IF Len(ss) = 1 THEN ss[1]
    ELSE ss[1] \o sep \o join(Tail(ss), sep)

(***************************************************************************)
(* Token                                                                    *)
(***************************************************************************)
String(s) == [type |-> "String", string |-> s]
LParen == [type |-> "LParen", string |-> <<>>]
RParen == [type |-> "RParen", string |-> <<>>]

\* char::is_whitespace, on the characters the model uses
is_whitespace(c) == c \in {" ", "\n", "\t"}

(***************************************************************************)
(* lex_string: one word, from position i of inp; returns the word and the   *)
(* iterator position after it.  The counter cannot reach 2^32 within the    *)
(* bounds, so depth += 1 never overflows.                                   *)
(***************************************************************************)
RECURSIVE lex_string_loop(_, _, _, _)

\* mutant: whitespace ends the word whatever the counter is
lex_string_loop_ws_breaks(inp, i, str, d) ==
    IF i > Len(inp) THEN [string |-> str, chars |-> i]
    ELSE LET c == inp[i] IN
         IF c = "(" THEN lex_string_loop(inp, i + 1, Append(str, c), d + 1)
         ELSE IF c = ")" /\ d > 0 THEN lex_string_loop(inp, i + 1, Append(str, c), d - 1)
         ELSE IF c = ")" THEN [string |-> str, chars |-> i]
         ELSE IF is_whitespace(c) THEN [string |-> str, chars |-> i]
         ELSE lex_string_loop(inp, i + 1, Append(str, c), d)

\* mutant: ')' always ends the word, the counter is never lowered
lex_string_loop_close_breaks(inp, i, str, d) ==
    IF i > Len(inp) THEN [string |-> str, chars |-> i]
    ELSE LET c == inp[i] IN
         IF c = "(" THEN lex_string_loop(inp, i + 1, Append(str, c), d + 1)
         ELSE IF c = ")" THEN [string |-> str, chars |-> i]
         ELSE IF is_whitespace(c) /\ d = 0 THEN [string |-> str, chars |-> i]
         ELSE lex_string_loop(inp, i + 1, Append(str, c), d)

lex_string_loop(inp, i, str, d) ==
    IF i > Len(inp) THEN [string |-> str, chars |-> i]
    ELSE LET c == inp[i] IN
         IF c = "(" THEN lex_string_loop(inp, i + 1, Append(str, c), d + 1)
         ELSE IF c = ")" /\ d > 0 THEN lex_string_loop(inp, i + 1, Append(str, c), d - 1)
         ELSE IF c = ")" THEN [string |-> str, chars |-> i]
         ELSE IF is_whitespace(c) /\ d = 0 THEN [string |-> str, chars |-> i]
         ELSE lex_string_loop(inp, i + 1, Append(str, c), d)

lex_string(inp, i) == lex_string_loop(inp, i, <<>>, 0)

(***************************************************************************)
(* lex: one iteration of `while let Some(c) = chars.peek()`, for i within   *)
(* inp; returns the token vector and the iterator position after it.        *)
(***************************************************************************)
lex_step(inp, i, toks) ==
    LET c == inp[i] IN
    IF c = "(" THEN [tokens |-> Append(toks, LParen), chars |-> i + 1]
    ELSE IF c = ")" THEN [tokens |-> Append(toks, RParen), chars |-> i + 1]
    ELSE IF is_whitespace(c) THEN [tokens |-> toks, chars |-> i + 1]
    ELSE LET w == lex_string(inp, i) IN
         [tokens |-> Append(toks, String(w.string)), chars |-> w.chars]

\* lex as a whole: the loop run to the end of the input, Ok(tokens)
RECURSIVE lex_loop(_, _, _)
lex_loop(inp, i, toks) ==
    IF i > Len(inp) THEN toks
    ELSE LET s == lex_step(inp, i, toks) IN lex_loop(inp, s.chars, s.tokens)

lex(inp) == lex_loop(inp, 1, <<>>)

(***************************************************************************)
(* parse_rule, at position i of the Peekable<Iter<Token>> over toks.        *)
(* Results are Options: [ok |-> FALSE] is None.                             *)
(***************************************************************************)
None == [ok |-> FALSE]

\* the tokens a map_while over Token::String takes from position i on
RECURSIVE map_while_strings(_, _)
map_while_strings(toks, i) ==
    IF i > Len(toks) \/ toks[i].type # "String" THEN <<>>
    ELSE <<toks[i].string>> \o map_while_strings(toks, i + 1)

parse_rule(toks, i) ==
    IF i > Len(toks) THEN None
    ELSE IF toks[i].type # "String" THEN None
    ELSE IF i + 1 > Len(toks) THEN None
    ELSE IF toks[i + 1].type = "String"
         THEN [ok |-> TRUE,
               rule |-> [property |-> toks[i].string, value |-> <<toks[i + 1].string>>],
               pos |-> i + 2]
    ELSE IF toks[i + 1].type = "LParen"
         THEN LET value == map_while_strings(toks, i + 2)
                  \* map_while also takes the first token it rejects, if there is one
                  after == i + 2 + Len(value) + 1
              IN [ok |-> TRUE,
                  rule |-> [property |-> toks[i].string, value |-> value],
                  pos |-> IF after > Len(toks) + 1 THEN Len(toks) + 1 ELSE after]
    ELSE None

(***************************************************************************)
(* parse_s_expr, at position i of the iterator over toks.                   *)
(***************************************************************************)
RECURSIVE parse_s_expr(_, _)
RECURSIVE parse_s_expr_loop(_, _, _, _, _)

SExpr(selector, rules, children) ==
    [selector |-> selector, rules |-> rules, children |-> children]

\* mutant: the scan of a body stops after its first nested node
parse_s_expr_loop_stops_after_child(toks, i, selector, rules, children) ==
    IF i > Len(toks)
    THEN [ok |-> TRUE, s_expr |-> SExpr(selector, rules, children), pos |-> i]
    ELSE IF toks[i].type = "String"
         THEN LET r == parse_rule(toks, i) IN
              IF r.ok
              THEN parse_s_expr_loop(toks, r.pos, selector, Append(rules, r.rule), children)
              ELSE None
    ELSE IF toks[i].type = "LParen"
         THEN LET c == parse_s_expr(toks, i + 1) IN
              IF c.ok
              THEN [ok |-> TRUE,
                    s_expr |-> SExpr(selector, rules, Append(children, c.s_expr)),
                    pos |-> c.pos]
              ELSE None
    ELSE [ok |-> TRUE, s_expr |-> SExpr(selector, rules, children), pos |-> i + 1]

parse_s_expr_loop(toks, i, selector, rules, children) ==
    IF i > Len(toks)
    THEN [ok |-> TRUE, s_expr |-> SExpr(selector, rules, children), pos |-> i]
    ELSE IF toks[i].type = "String"
         THEN LET r == parse_rule(toks, i) IN
              IF r.ok
              THEN parse_s_expr_loop(toks, r.pos, selector, Append(rules, r.rule), children)
              ELSE None
    ELSE IF toks[i].type = "LParen"
         THEN LET c == parse_s_expr(toks, i + 1) IN
              IF c.ok
              THEN parse_s_expr_loop(toks, c.pos, selector, rules, Append(children, c.s_expr))
              ELSE None
    ELSE [ok |-> TRUE, s_expr |-> SExpr(selector, rules, children), pos |-> i + 1]

parse_s_expr(toks, i) ==
    IF i > Len(toks) THEN None
    ELSE IF toks[i].type = "String"
         THEN parse_s_expr_loop(toks, i + 1, toks[i].string, <<>>, <<>>)
    ELSE None

(***************************************************************************)
(* parse: the pieces of one iteration of its for loop.                      *)
(***************************************************************************)
\* u32 arithmetic modulo 2^32 on signed residues: within the bounds no residue
\* leaves (-2^31, 2^31), so the residue of the sum is the sum of the residues
wrapping_add(d, n) == d + n
wrapping_sub(d, n) == d - n

\* tokens[a..b] of Rust panics unless a <= b <= len
slice_in_range(toks, a, b) == a <= b /\ b <= Len(toks)
slice(toks, a, b) == SubSeq(toks, a + 1, b)

\* mutant: a group that fails to parse throws away the nodes collected so far
push_if_some_or_reset(vec, r) == IF r.ok THEN Append(vec, r.s_expr) ELSE <<>>

\* if let Some(s_expr) = ... { s_exprs.push(s_expr) }
push_if_some(vec, r) == IF r.ok THEN Append(vec, r.s_expr) ELSE vec

(***************************************************************************)
(* SExpr::to_stylesheet                                                     *)
(***************************************************************************)
\* str::split_inclusive(","): every piece keeps the comma that ends it
RECURSIVE split_inclusive(_)
split_inclusive(s) ==
    IF s = <<>> THEN <<>>
    ELSE IF \E i \in 1..Len(s) : s[i] = ","
         THEN LET n == CHOOSE i \in 1..Len(s) :
                          s[i] = "," /\ \A j \in 1..(i - 1) : s[j] # ","
              IN <<SubSeq(s, 1, n)>> \o split_inclusive(SubSeq(s, n + 1, Len(s)))
    ELSE <<s>>

\* let selector = ...: format!("{} {}", parent, s) for every piece, joined by "\n"
full_selector(selector, parent) ==
    LET pieces == split_inclusive(selector) IN
    join([i \in 1..Len(pieces) |-> parent \o <<" ">> \o pieces[i]], <<"\n">>)

\* format!("    {}: {};", rule.property, rule.value.join(" "))
rule_line(rule) ==
    <<" ", " ", " ", " ">> \o rule.property \o <<":", " ">>
        \o join(rule.value, <<" ">>) \o <<";">>

\* mutant: a node without rules is given a block too
stylesheet_text_always_block(selector, rules, children) ==
    selector \o <<" ", "{", "\n">> \o join(rules, <<"\n">>) \o <<"\n", "}", "\n">>
        \o join(children, <<"\n">>)

\* the if/else that ends to_stylesheet, on the three strings computed before it
stylesheet_text(selector, rules, children) ==
    IF rules = <<>>
    THEN join(children, <<>>)
    ELSE selector \o <<" ", "{", "\n">> \o join(rules, <<"\n">>) \o <<"\n", "}", "\n">>
             \o join(children, <<"\n">>)

RECURSIVE to_stylesheet(_, _)
to_stylesheet(self, parent) ==
    LET selector == full_selector(self.selector, parent)
        rules == [i \in 1..Len(self.rules) |-> rule_line(self.rules[i])]
        children == [i \in 1..Len(self.children) |->
                        to_stylesheet(self.children[i], selector)]
    IN stylesheet_text(selector, rules, children)

\* every (node, parent) pair to_stylesheet is called on when rendering self
RECURSIVE to_stylesheet_calls(_, _)
to_stylesheet_calls(self, parent) ==
    {[self |-> self, parent |-> parent]}
        \cup UNION {to_stylesheet_calls(self.children[i], full_selector(self.selector, parent)) :
                       i \in 1..Len(self.children)}

(***************************************************************************)
(* Inputs.  A text input is any string over TextChars; a raw token input    *)
(* any token vector over RawTokens; a generated input is the token form of  *)
(* one or more parenthesized groups.                                        *)
(***************************************************************************)
a == <<"a">>
b == <<"b">>
ab == <<"a", ",", "b">>

TextChars == {"(", ")", " ", "a"}
TextInputs == SeqsUpTo(TextChars, MaxInput)

RawTokens == {LParen, RParen, String(a)}
RawInputs == SeqsUpTo(RawTokens, MaxTokens)

\* A body item of the input grammar: a rule-form `word value`, the value a bare
\* word or a parenthesized list of words, or a nested group `( word body )`.
RuleForm(property, value, list) ==
    [kind |-> "rule", word |-> property, value |-> value, list |-> list, body |-> <<>>]
GroupForm(selector, body) ==
    [kind |-> "group", word |-> selector, value |-> <<>>, list |-> FALSE, body |-> body]

RECURSIVE FormTokens(_)
FormTokens(f) ==
    IF f.kind = "rule"
    THEN IF f.list
         THEN <<String(f.word), LParen>>
                  \o [i \in 1..Len(f.value) |-> String(f.value[i])] \o <<RParen>>
         ELSE <<String(f.word), String(f.value[1])>>
    ELSE <<LParen, String(f.word)>>
             \o Concat([i \in 1..Len(f.body) |-> FormTokens(f.body[i])]) \o <<RParen>>

ItemPool ==
    { RuleForm(b, <<a>>, FALSE),
      RuleForm(a, <<b, a>>, TRUE),
      GroupForm(b, <<RuleForm(a, <<b>>, FALSE)>>),
      GroupForm(a, <<>>),
      GroupForm(b, <<GroupForm(a, <<RuleForm(b, <<a>>, FALSE)>>)>>) }

\* one group with a body of up to MaxItems items
GroupInputs ==
    {<<[wf |-> TRUE, form |-> GroupForm(sel, body), raw |-> <<>>]>> :
        sel \in {a, ab}, body \in SeqsUpTo(ItemPool, MaxItems)}

WellFormed(f) == [wf |-> TRUE, form |-> f, raw |-> <<>>]
Malformed(toks) == [wf |-> FALSE, form |-> GroupForm(<<>>, <<>>), raw |-> toks]

DocPool ==
    { WellFormed(GroupForm(a, <<RuleForm(b, <<a>>, FALSE)>>)),
      WellFormed(GroupForm(b, <<RuleForm(a, <<a, b>>, TRUE),
                                GroupForm(a, <<RuleForm(b, <<b>>, FALSE)>>)>>)),
      \* an empty group
      Malformed(<<LParen, RParen>>),
      \* the first token is not a word
      Malformed(<<LParen, LParen, String(a), String(b), String(a), RParen, RParen>>),
      \* a property word without a value
      Malformed(<<LParen, String(a), String(b), String(a), String(b), RParen>>),
      \* a property word without a value, after a nested node
      Malformed(<<LParen, String(b), LParen, String(a), String(b), String(a), RParen,
                  String(a), RParen>>),
      \* a malformed nested node: its property word has no value
      Malformed(<<LParen, String(a), String(b), String(a),
                  LParen, String(b), String(a), RParen, RParen>>),
      \* a malformed nested node: an empty group
      Malformed(<<LParen, String(a), LParen, RParen, RParen>>) }

\* up to MaxGroups groups, one after the other
DocInputs == UNION {[1..m -> DocPool] : m \in 2..MaxGroups}

GroupTokens(g) == IF g.wf THEN FormTokens(g.form) ELSE g.raw
DocTokens(d) == Concat([i \in 1..Len(d) |-> GroupTokens(d[i])])

(***************************************************************************)
(* The state machine.                                                       *)
(***************************************************************************)
Init ==
    /\ chars = 1 /\ left = 0 /\ right = 0 /\ depth = 0
    /\ s_exprs = <<>> /\ k = 0 /\ string = <<>>
    /\ \/ /\ entry = "text"
          /\ input \in TextInputs
          /\ doc = <<>> /\ tokens = <<>> /\ pc = "lex"
       \/ /\ entry = "tokens"
          /\ tokens \in RawInputs
          /\ doc = <<>> /\ input = <<>> /\ pc = "parse"
       \/ /\ entry = "doc"
          /\ doc \in GroupInputs \cup DocInputs
          /\ tokens = DocTokens(doc)
          /\ input = <<>> /\ pc = "parse"

\* lex: one iteration of the while loop
LexStep ==
    /\ pc = "lex" /\ chars <= Len(input)
    /\ LET s == lex_step(input, chars, tokens) IN
       /\ tokens' = s.tokens
       /\ chars' = s.chars
    /\ UNCHANGED <<entry, doc, input, left, right, depth, s_exprs, k, string, pc>>

\* lex returns Ok(tokens); the caller hands them to parse
LexDone ==
    /\ pc = "lex" /\ chars > Len(input)
    /\ pc' = "parse"
    /\ UNCHANGED <<entry, doc, input, chars, tokens, left, right, depth, s_exprs, k, string>>

\* parse: what one iteration of the for loop does once depth is updated to d
ParseIter(d) ==
    /\ depth' = d
    /\ IF d = 0
       THEN IF slice_in_range(tokens, left + 1, right)
            THEN /\ s_exprs' = push_if_some(s_exprs,
                                   parse_s_expr(slice(tokens, left + 1, right), 1))
                 /\ left' = right + 1
                 /\ right' = right + 1
                 /\ pc' = pc
            ELSE \* tokens[left + 1..right] is out of range: the slice index panics
                 /\ pc' = "panic_slice"
                 /\ UNCHANGED <<left, right, s_exprs>>
       ELSE /\ right' = right + 1
            /\ UNCHANGED <<left, s_exprs, pc>>
    /\ UNCHANGED <<entry, doc, input, chars, tokens, k, string>>

ParseLParen ==
    /\ pc = "parse" /\ right < Len(tokens)
    /\ tokens[right + 1].type = "LParen"
    /\ ParseIter(wrapping_add(depth, 1))

ParseRParen ==
    /\ pc = "parse" /\ right < Len(tokens)
    /\ tokens[right + 1].type = "RParen"
    /\ depth # 0
    /\ ParseIter(wrapping_sub(depth, 1))

\* depth -= 1 at 0, built with overflow checks: "attempt to subtract with overflow"
ParseRParenOverflowPanic ==
    /\ pc = "parse" /\ right < Len(tokens)
    /\ tokens[right + 1].type = "RParen"
    /\ depth = 0
    /\ pc' = "panic_overflow"
    /\ UNCHANGED <<entry, doc, input, chars, tokens, left, right, depth, s_exprs, k, string>>

\* depth -= 1 at 0, built without overflow checks: the counter wraps around
ParseRParenWrap ==
    /\ pc = "parse" /\ right < Len(tokens)
    /\ tokens[right + 1].type = "RParen"
    /\ depth = 0
    /\ ParseIter(wrapping_sub(depth, 1))

ParseString ==
    /\ pc = "parse" /\ right < Len(tokens)
    /\ tokens[right + 1].type = "String"
    /\ ParseIter(depth)

\* parse returns s_exprs; the caller renders them
ParseDone ==
    /\ pc = "parse" /\ right = Len(tokens)
    /\ pc' = "render"
    /\ UNCHANGED <<entry, doc, input, chars, tokens, left, right, depth, s_exprs, k, string>>

\* string_to_stylesheet: one iteration of `for s_expr in s_exprs`
Render ==
    /\ pc = "render" /\ k < Len(s_exprs)
    /\ string' = string \o to_stylesheet(s_exprs[k + 1], <<>>)
    /\ k' = k + 1
    /\ UNCHANGED <<entry, doc, input, chars, tokens, left, right, depth, s_exprs, pc>>

\* string_to_stylesheet returns Ok(string)
RenderDone ==
    /\ pc = "render" /\ k = Len(s_exprs)
    /\ pc' = "done"
    /\ UNCHANGED <<entry, doc, input, chars, tokens, left, right, depth, s_exprs, k, string>>

Next ==
    \/ LexStep
    \/ LexDone
    \/ ParseLParen
    \/ ParseRParen
    \/ ParseRParenOverflowPanic
    \/ ParseRParenWrap
    \/ ParseString
    \/ ParseDone
    \/ Render
    \/ RenderDone

Spec == Init /\ [][Next]_vars

(***************************************************************************)
(* Vocabulary of the properties.                                            *)
(***************************************************************************)
Parsed == pc \in {"render", "done"}
Panicked == pc \in {"panic_overflow", "panic_slice"}

RECURSIVE Sum(_)
Sum(ns) == IF ns = <<>> THEN 0 ELSE Head(ns) + Sum(Tail(ns))

CountOf(c, text) == Cardinality({i \in 1..Len(text) : text[i] = c})

Contains(text, part) ==
    \E i \in 0..(Len(text) - Len(part)) : SubSeq(text, i + 1, i + Len(part)) = part

\* the lines of a text: the pieces between its line breaks
RECURSIVE Lines(_)
Lines(text) ==
    IF \E i \in 1..Len(text) : text[i] = "\n"
    THEN LET n == CHOOSE i \in 1..Len(text) :
                     text[i] = "\n" /\ \A j \in 1..(i - 1) : text[j] # "\n"
         IN <<SubSeq(text, 1, n - 1)>> \o Lines(SubSeq(text, n + 1, Len(text)))
    ELSE <<text>>

\* every to_stylesheet call made while the s_exprs parsed so far are rendered
Calls == UNION {to_stylesheet_calls(s_exprs[i], <<>>) : i \in 1..Len(s_exprs)}

\* the nodes of the result, at any depth
ParsedNodes == {c.self : c \in Calls}

\* the Node the input grammar gives a group: its rule-forms and its nested
\* groups, each kind in source order
RECURSIVE NodeOf(_)
FormRule(f) == [property |-> f.word, value |-> f.value]
NodeOf(f) ==
    LET rs == SelectSeq(f.body, LAMBDA x : x.kind = "rule")
        gs == SelectSeq(f.body, LAMBDA x : x.kind = "group")
    IN SExpr(f.word,
             [i \in 1..Len(rs) |-> FormRule(rs[i])],
             [i \in 1..Len(gs) |-> NodeOf(gs[i])])

\* no prefix of the tokens has more Close than Open
PrefixBalanced(toks) ==
    \A n \in 0..Len(toks) :
        Cardinality({i \in 1..n : toks[i].type = "RParen"})
            <= Cardinality({i \in 1..n : toks[i].type = "LParen"})

\* tokens written back as text: one space between two tokens, none after an
\* Open and none before a Close
RECURSIVE Serialize(_)
TokenText(t) ==
    IF t.type = "LParen" THEN <<"(">> ELSE IF t.type = "RParen" THEN <<")">> ELSE t.string
Serialize(toks) ==
    IF toks = <<>> THEN <<>>
    ELSE IF Len(toks) = 1 THEN TokenText(toks[1])
    ELSE TokenText(toks[1])
             \o (IF toks[1].type = "LParen" \/ toks[2].type = "RParen" THEN <<>> ELSE <<" ">>)
             \o Serialize(Tail(toks))

\* '(' minus ')' in a text
Balance(text) == CountOf("(", text) - CountOf(")", text)

\* where a word that starts at position s of inp ends: the first position after
\* s holding ')' or whitespace with the parentheses before it matched, or the
\* end of inp
WordEnd(inp, s) ==
    LET stops == {e \in (s + 1)..Len(inp) :
                     /\ inp[e] = ")" \/ is_whitespace(inp[e])
                     /\ Balance(SubSeq(inp, s, e - 1)) = 0}
    IN IF stops = {} THEN Len(inp) + 1
       ELSE CHOOSE e \in stops : \A f \in stops : e <= f

(***************************************************************************)
(* C1: every Rule of every Node parse returns, at any depth, has at least   *)
(* one value string, also when the value is written as a parenthesized      *)
(* list.                                                                    *)
(***************************************************************************)
C1_RuleValuesNonEmpty ==
    \A n \in ParsedNodes : \A i \in 1..Len(n.rules) : Len(n.rules[i].value) >= 1

(***************************************************************************)
(* C2: a Close seen while the top-level depth counter is 0 is detected and  *)
(* rejected; the unsigned counter is never left to underflow, neither to    *)
(* the overflow panic nor to a wrapped value.                               *)
(***************************************************************************)
C2_NoDepthUnderflow == pc # "panic_overflow" /\ depth >= 0

(***************************************************************************)
(* C3: a malformed top-level group is dropped and nothing else is: the      *)
(* result of parse holds the Nodes of the well-formed groups of the         *)
(* document, all of them, in document order.                                *)
(***************************************************************************)
C3_MalformedGroupDropped ==
    (Parsed /\ entry = "doc" /\ Len(doc) >= 2) =>
        s_exprs = Concat([i \in 1..Len(doc) |->
                             IF doc[i].wf THEN <<NodeOf(doc[i].form)>> ELSE <<>>])

C3_Witness ==
    /\ Parsed /\ entry = "doc" /\ Len(doc) = 3
    /\ doc[1].wf /\ ~doc[2].wf /\ doc[3].wf
    /\ doc[1] # doc[3]
    /\ Len(s_exprs) = 2

(***************************************************************************)
(* C4: a Node with rules renders as its CSS block followed by the plain     *)
(* concatenation of its children's renderings, nothing between two          *)
(* children.                                                                *)
(***************************************************************************)
CssBlock(self, parent) ==
    full_selector(self.selector, parent) \o <<" ", "{", "\n">>
        \o join([i \in 1..Len(self.rules) |-> rule_line(self.rules[i])], <<"\n">>)
        \o <<"\n", "}", "\n">>

C4_ChildrenConcatenated ==
    pc = "done" =>
        \A c \in Calls :
            c.self.rules # <<>> =>
                to_stylesheet(c.self, c.parent) =
                    CssBlock(c.self, c.parent)
                        \o Concat([i \in 1..Len(c.self.children) |->
                                      to_stylesheet(c.self.children[i],
                                                    full_selector(c.self.selector, c.parent))])

(***************************************************************************)
(* C5: a selector of k comma-delimited pieces renders as exactly k selector *)
(* lines, line i being the ancestor chain, a space and piece i, at every    *)
(* depth and whatever the ancestors' selectors are.                         *)
(***************************************************************************)
C5_OneLinePerPiece ==
    pc = "done" =>
        \A c \in Calls :
            c.self.rules # <<>> =>
                LET pieces == split_inclusive(c.self.selector)
                    lines == Lines(full_selector(c.self.selector, c.parent))
                IN /\ Len(lines) = Len(pieces)
                   /\ \A i \in 1..Len(pieces) :
                          lines[i] = c.parent \o <<" ">> \o pieces[i]

(***************************************************************************)
(* C6: the rendered text holds one CSS block per parsed Node, at any        *)
(* depth, that has a rule; a Node without rules adds no block, and the      *)
(* blocks of its children carry its full selector as their prefix.          *)
(***************************************************************************)
RECURSIVE RuledNodes(_)
RuledNodes(n) ==
    (IF n.rules # <<>> THEN 1 ELSE 0)
        + Sum([i \in 1..Len(n.children) |-> RuledNodes(n.children[i])])

C6_OneBlockPerRuledNode ==
    pc = "done" =>
        /\ CountOf("{", string) = Sum([i \in 1..Len(s_exprs) |-> RuledNodes(s_exprs[i])])
        /\ CountOf("}", string) = CountOf("{", string)
        /\ \A c \in Calls :
               c.self.rules = <<>> =>
                   \A i \in 1..Len(c.self.children) :
                       c.self.children[i].rules # <<>> =>
                           Contains(string,
                                    full_selector(c.self.children[i].selector,
                                                  full_selector(c.self.selector, c.parent))
                                        \o <<" ", "{", "\n">>)

C6_Witness ==
    /\ pc = "done" /\ Len(s_exprs) = 1
    /\ s_exprs[1].rules # <<>>
    /\ \E i \in 1..Len(s_exprs[1].children) :
           LET child == s_exprs[1].children[i] IN
           /\ child.rules = <<>>
           /\ child.children # <<>>
           /\ child.children[1].rules # <<>>
    /\ CountOf("{", string) >= 3

(***************************************************************************)
(* C7: the tokens lex produces, written back as text and lexed again, are   *)
(* the same tokens.                                                         *)
(***************************************************************************)
C7_LexRoundTrip ==
    (entry = "text" /\ pc # "lex") => lex(Serialize(tokens)) = tokens

C7_Witness ==
    /\ entry = "text" /\ pc = "parse"
    /\ Serialize(tokens) # input
    /\ \E i \in 1..(Len(tokens) - 1) :
           tokens[i].type = "String" /\ tokens[i + 1].type = "LParen"
    /\ \E i \in 1..Len(tokens) :
           tokens[i].type = "String" /\ \E j \in 1..Len(tokens[i].string) :
                                            tokens[i].string[j] = "("

(***************************************************************************)
(* C8: a word is one Word token up to the first ')' or whitespace met with  *)
(* its parentheses matched: parentheses and whitespace inside matched       *)
(* parentheses stay in the word, what follows a matched ')' continues it,   *)
(* and the character that ends it is not consumed, so that a ')' ending it  *)
(* is the next step's own Close token.                                      *)
(***************************************************************************)
C8_WordWithMatchedParens ==
    [][(pc = "lex" /\ chars <= Len(input)) =>
          /\ (input[chars] # "(" /\ input[chars] # ")" /\ ~is_whitespace(input[chars])) =>
                 LET e == WordEnd(input, chars) IN
                 /\ tokens' = Append(tokens, String(SubSeq(input, chars, e - 1)))
                 /\ chars' = e
          /\ input[chars] = ")" =>
                 /\ tokens' = Append(tokens, RParen)
                 /\ chars' = chars + 1]_vars

C8_Witness ==
    /\ pc = "lex"
    /\ tokens = <<String(<<"a", "(", " ", ")", "a">>), RParen>>

(***************************************************************************)
(* C9: the rules of a Node are the rule-forms of its group in source order  *)
(* and its children the nested groups in source order, none lost and none   *)
(* twice, however the two kinds interleave.                                 *)
(***************************************************************************)
RECURSIVE SourceOrdered(_, _)
SourceOrdered(node, f) ==
    LET ruleAt == {i \in 1..Len(f.body) : f.body[i].kind = "rule"}
        groupAt == {i \in 1..Len(f.body) : f.body[i].kind = "group"}
        \* the position in the body of the n-th item among those at positions at
        nth(at, n) == CHOOSE i \in at : Cardinality({j \in at : j <= i}) = n
    IN /\ node.selector = f.word
       /\ Len(node.rules) = Cardinality(ruleAt)
       /\ Len(node.children) = Cardinality(groupAt)
       /\ \A n \in 1..Len(node.rules) :
              /\ node.rules[n].property = f.body[nth(ruleAt, n)].word
              /\ node.rules[n].value = f.body[nth(ruleAt, n)].value
       /\ \A n \in 1..Len(node.children) :
              SourceOrdered(node.children[n], f.body[nth(groupAt, n)])

C9_SourceOrderKept ==
    (Parsed /\ entry = "doc" /\ Len(doc) = 1) =>
        /\ Len(s_exprs) = 1
        /\ SourceOrdered(s_exprs[1], doc[1].form)

C9_Witness ==
    /\ Parsed /\ entry = "doc" /\ Len(doc) = 1
    /\ Len(doc[1].form.body) = 3
    /\ doc[1].form.body[1].kind = "rule"
    /\ doc[1].form.body[2].kind = "group"
    /\ doc[1].form.body[3].kind = "rule"
    /\ doc[1].form.body[1] # doc[1].form.body[3]
    /\ Len(s_exprs) = 1
    /\ Len(s_exprs[1].rules) = 2
    /\ Len(s_exprs[1].children) = 1

(***************************************************************************)
(* C10: on tokens of which no prefix has more Close than Open, parse        *)
(* completes and returns its Nodes; it never aborts.                        *)
(***************************************************************************)
C10_TotalOnBalancedPrefixes ==
    PrefixBalanced(tokens) => ~Panicked

====
